---------------------------- MODULE Spec2Model ----------------------------
(***************************************************************************)
(* client_1c_timesheet: the raw transport's calls and response             *)
(* classification (api.py), and the domain objects' parse / serialize      *)
(* contract, identity and the datetime adapter (models.py).                *)
(*                                                                         *)
(* Wire keys are Cyrillic in the source; they are transliterated here:     *)
(*   Chasov{N}                      hours of day N                         *)
(*   VidVremeni{N}_Key              time group of day N                    *)
(*   Territoriya{N}_Key             territory of day N                     *)
(*   UsloviyaTruda{N}_Key           working conditions of day N            *)
(*   PerekhodyashchayaChastSmeny{N} carried-over shift flag of day N       *)
(*   Sotrudnik_Key, BukvennyyKod, TsifrovoyKod, FizicheskoeLitso_Key,      *)
(*   GolovnayaOrganizatsiya_Key, PeriodRegistratsii, Organizatsiya_Key,    *)
(*   Podrazdelenie_Key, DataNachalaPerioda, DataOkonchaniyaPerioda,        *)
(*   DannyeOVremeni.                                                       *)
(***************************************************************************)
EXTENDS Integers, Sequences, FiniteSets, TLC

VARIABLES op, arg, ret, obj, origin, url, params, sent

vars == <<op, arg, ret, obj, origin, url, params, sent>>

---------------------------------------------------------------------------
(* Python / JSON values, tagged by type.  A number carries its value in    *)
(* hundredths (8.3 is JNum(830), 404 is JInt(404) = JNum(40400)).          *)

JNull == [k |-> "null"]
JStr(s) == [k |-> "str", v |-> s]
JNum(c) == [k |-> "num", v |-> c]
JInt(n) == JNum(n * 100)
JBool(b) == [k |-> "bool", v |-> b]
JList(s) == [k |-> "list", v |-> s]
JObj(f) == [k |-> "obj", v |-> f]

EmptyDict == << >>

\* dict | dict: the right operand wins on a shared key.
Merge(a, b) == [x \in (DOMAIN a) \cup (DOMAIN b) |-> IF x \in DOMAIN b THEN b[x] ELSE a[x]]

\* dict without the key x.
Without(d, x) == [y \in (DOMAIN d) \ {x} |-> d[y]]

\* Python truthiness of a value: None, "", 0, False, [] and {} are falsy.
Truthy(x) ==
  CASE x.k = "null" -> FALSE
    [] x.k = "str" -> x.v # ""
    [] x.k = "num" -> x.v # 0
    [] x.k = "bool" -> x.v
    [] x.k = "list" -> Len(x.v) > 0
    [] x.k = "obj" -> DOMAIN x.v # {}
    [] OTHER -> TRUE

\* {x: y for x, y in as_dict.items() if y}
DropFalsy(d) == [x \in {y \in DOMAIN d : Truthy(d[y])} |-> d[x]]

Return(x) == [kind |-> "return", value |-> x]
Raise(e, m) == [kind |-> "raise", exc |-> e, msg |-> m]

Raised(r) == r.kind = "raise"

---------------------------------------------------------------------------
(* Error taxonomy (api.py 256-282, models.py 503-504).                     *)

Parent(e) ==
  CASE e = "APIServer404" -> "APIServerException"
    [] e = "APIServerException" -> "APIException"
    [] e = "APIResponseParseException" -> "APIException"
    [] e = "APIException" -> "Client1CException"
    [] e = "ObjectParseException" -> "Client1CException"
    [] OTHER -> "Exception"

RECURSIVE IsInstance(_, _)
IsInstance(e, c) ==
  IF e = c THEN TRUE
  ELSE IF e = "Exception" THEN FALSE
  ELSE IsInstance(Parent(e), c)

---------------------------------------------------------------------------
(* Raw transport: APIRawResponse.                                          *)
(* A response is [status_code, text]; text is either the encoding of a     *)
(* JSON value ([wf |-> TRUE, enc |-> value]) or text that is not JSON.     *)

Statuses == {200, 201, 204, 400, 404, 500}

Codes == {JInt(404), JInt(500), JInt(400), JStr("404")}

MessageValues == {JStr("not found"), JStr("")}

\* the "message" member of an odata.error object, or its absence
Messages ==
  {[has |-> FALSE]}
    \cup {[has |-> TRUE, val |-> JObj([value |-> m])] : m \in MessageValues}
    \cup {[has |-> TRUE, val |-> JObj([lang |-> JStr("ru")])],
          [has |-> TRUE, val |-> JNull]}

ErrorObject(c, m) ==
  Merge(IF c.has THEN [code |-> c.val] ELSE EmptyDict,
        IF m.has THEN [message |-> m.val] ELSE EmptyDict)

Envelopes ==
  {JObj([odata_error |-> JObj(ErrorObject(c, m))]) :
     c \in {[has |-> FALSE]} \cup {[has |-> TRUE, val |-> x] : x \in Codes},
     m \in Messages}

Records == {JObj([Ref_Key |-> JStr("x")]), JObj([Ref_Key |-> JStr("y"), Description |-> JStr("n")])}

ValueContents ==
  {JList(<<JInt(1), JInt(2), JInt(3)>>), JList(<< >>), JNull, JStr("x"),
   JList(<<JObj([Ref_Key |-> JStr("x")])>>)}

JsonBodies ==
  Envelopes
    \cup Records
    \cup {JObj(EmptyDict), JObj([odata_error |-> JNull]),
          JList(<<JInt(1), JInt(2), JInt(3)>>), JStr("x"), JNull, JInt(0)}
    \cup {JObj([value |-> c, odata_metadata |-> JStr("m")]) : c \in ValueContents}
    \cup {JObj([value |-> c]) : c \in ValueContents}
    \cup {JObj([value |-> JList(<< >>), odata_error |-> JObj(ErrorObject([has |-> TRUE, val |-> JInt(404)], [has |-> TRUE, val |-> JObj([value |-> JStr("not found")])]))])}

Texts ==
  {[wf |-> TRUE, enc |-> j] : j \in JsonBodies}
    \cup {[wf |-> FALSE, raw |-> "<html>"], [wf |-> FALSE, raw |-> ""]}

Responses == [status_code : Statuses, text : Texts]

\* the mutant swallows the decode error and returns an empty dict
parse_json_default(response) ==
  IF response.text.wf THEN Return(response.text.enc) ELSE Return(JObj(EmptyDict))

\* APIRawResponse.parse_json: response.json(), JSONDecodeError re-raised
\* as APIResponseParseException carrying response.text.
parse_json(response) ==
  IF response.text.wf
  THEN Return(response.text.enc)
  ELSE Raise("APIResponseParseException",
             [tmpl |-> "Could not parse response as JSON", text |-> response.text])

\* x.keys(): only a dict has it.
HasKeys(x) == x.k = "obj"

\* `'value' in x` for the message member: a dict tests its keys, a string
\* tests a substring, a list its items; None, numbers and booleans are not
\* iterable (TypeError).  No string or list message of Messages holds
\* 'value'.
Iterable(x) == x.k \in {"obj", "str", "list"}
InMember(key, x) == x.k = "obj" /\ key \in DOMAIN x.v

APIErrorResponse(code, message) == [code |-> code, message |-> message]

parse_json_clockify_error(response) ==
  LET p == parse_json(response) IN
  IF Raised(p) THEN p
  ELSE LET parsed == p.value IN
    IF ~HasKeys(parsed) THEN Raise("AttributeError", [tmpl |-> "keys"])
    ELSE IF "odata_error" \in DOMAIN parsed.v
    THEN LET err == parsed.v.odata_error IN
      IF ~HasKeys(err) THEN Raise("AttributeError", [tmpl |-> "keys"])
      ELSE IF "message" \in DOMAIN err.v /\ ~Iterable(err.v.message)
      THEN Raise("TypeError", [tmpl |-> "argument is not iterable"])
      ELSE IF ~("message" \in DOMAIN err.v /\ InMember("value", err.v.message))
      THEN Raise("APIResponseParseException",
                 [tmpl |-> "Could not find message in", parsed |-> parsed])
      ELSE IF "code" \notin DOMAIN err.v
      THEN Raise("APIResponseParseException",
                 [tmpl |-> "Could not find code in", parsed |-> parsed])
      ELSE Return(APIErrorResponse(err.v.code, err.v.message.v.value))
    \* no envelope: the final parsed['odata.error'] lookup fails
    ELSE Raise("KeyError", [tmpl |-> "odata.error"])

\* error_response.code == 404 (Python ==: an int never equals a str)
IsCode404(code) == code.k = "num" /\ code.v = 40400

\* the mutant classifies by the HTTP status instead of the decoded code
ClassifyByStatus(response, error_response) ==
  IF response.status_code = 404 THEN "APIServer404" ELSE "APIServerException"

Classify(response, error_response) ==
  IF IsCode404(error_response.code) THEN "APIServer404" ELSE "APIServerException"

RaiseServer(response, error_response) ==
  [kind |-> "raise", exc |-> Classify(response, error_response),
   msg |-> [tmpl |-> "HTTP containing API error",
            status_code |-> response.status_code, text |-> response.text],
   error_response |-> error_response]

APIRawResponse_parse(response) ==
  IF response.status_code \in {200, 201}
  THEN LET p == parse_json(response) IN
    IF Raised(p) THEN p
    ELSE IF ~HasKeys(p.value) THEN Raise("AttributeError", [tmpl |-> "keys"])
    ELSE IF "value" \in DOMAIN p.value.v THEN Return(p.value.v.value)
    ELSE Return(p.value)
  ELSE LET e == parse_json_clockify_error(response) IN
    IF Raised(e) THEN e ELSE RaiseServer(response, e.value)

---------------------------------------------------------------------------
(* APIServer (api.py 12-140).  A call builds one request, hands it to      *)
(* requests, and parses the response; the network either answers with a    *)
(* response or fails.  except_connection_error (decorators.py) wraps every *)
(* call.                                                                   *)

FormatKey == "$format"

FormatJson == [x \in {FormatKey} |-> JStr("json")]

\* the request handed to requests.get / post / put / patch
Request(method, target, auth, query, data) ==
  [method |-> method, url |-> target, auth |-> auth, params |-> query, json |-> data]

\* the mutant lets the caller's entry win: {"$format": "json"} | params
get_params_caller_wins(given) ==
  IF Truthy(given) THEN Merge(FormatJson, given.v) ELSE FormatJson

\* get, lines 50-53: params | {"$format": "json"} is a new dict in which
\* the right operand wins; None and {} give {"$format": "json"}
get_params(given) ==
  IF Truthy(given) THEN Merge(given.v, FormatJson) ELSE FormatJson

\* the mutant sends the request again when the network failed
send_retrying(log, request, outcome) ==
  IF outcome.kind = "response" THEN Append(log, request)
  ELSE Append(Append(log, request), request)

\* requests.get(...) and its siblings: one request on the wire per call
send(log, request, outcome) == Append(log, request)

\* what requests.get(...) gives back: the response, or the network failure
\* raised as requests' exception
requests_result(outcome) ==
  IF outcome.kind = "response" THEN Return(outcome.response)
  ELSE Raise(outcome.kind, [tmpl |-> "network failure"])

\* the body of get: the request it builds and what it returns or raises
APIServer_get(self_url, path, auth, given, outcome) ==
  LET response_raw == requests_result(outcome) IN
  [request |-> Request("GET", self_url \o path, auth, get_params(given), JNull),
   ret |-> IF Raised(response_raw) THEN response_raw
           ELSE APIRawResponse_parse(response_raw.value)]

\* the body of post, put and patch
APIServer_write(method, self_url, path, auth, data, outcome) ==
  LET response_raw == requests_result(outcome) IN
  [request |-> Request(method, self_url \o path, auth, FormatJson, data),
   ret |-> IF Raised(response_raw) THEN response_raw
           ELSE APIRawResponse_parse(response_raw.value)]

NetworkFailures == {"ConnectionError", "Timeout"}

\* except_connection_error: a network-level failure of the wrapped call is
\* re-raised as the one connection-failure kind; everything else passes
except_connection_error(r) ==
  IF Raised(r) /\ r.exc \in NetworkFailures
  THEN Raise("ConnectionFailure", [tmpl |-> "connection error", original |-> r.exc])
  ELSE r

---------------------------------------------------------------------------
(* Domain objects (models.py).  An instance is a record tagged "inst"      *)
(* holding its class and its attributes; None is JNull.                    *)

\* Python ==: True and False compare as the numbers 1 and 0.
AsNum(x) == IF x.k = "bool" THEN JNum(IF x.v THEN 100 ELSE 0) ELSE x
PyEq(a, b) == AsNum(a) = AsNum(b)

IsInst(x) == x.k = "inst"

\* The first raised result of a sequence of results evaluated in order, or
\* Return(JNull) when none raises (Python evaluates arguments left to right
\* and stops at the first exception).
FirstRaise(rs) ==
  LET bad == {i \in 1..Len(rs) : Raised(rs[i])} IN
  IF bad = {} THEN Return(JNull)
  ELSE rs[CHOOSE i \in bad : \A j \in bad : i <= j]

\* APIObject.get_item
get_item(dict_in, key, raise_error) ==
  IF key \in DOMAIN dict_in THEN Return(dict_in[key])
  ELSE IF raise_error
       THEN Raise("ObjectParseException",
                  [tmpl |-> "Could not find key", key |-> key, dict_in |-> dict_in])
       ELSE Return(JNull)

\* APIObjectID.__init__
APIObjectID(obj_id) == [k |-> "inst", cls |-> "APIObjectID", obj_id |-> obj_id]

\* x.obj_id of an attribute that is expected to hold an APIObjectID
AttrObjId(x) ==
  IF IsInst(x) /\ "obj_id" \in DOMAIN x THEN Return(x.obj_id)
  ELSE Raise("AttributeError", [tmpl |-> "obj_id"])

APIObjectID_init_from_dict(cls, dict_in) ==
  LET id == get_item(dict_in, "Ref_Key", TRUE) IN
  IF Raised(id) THEN id
  ELSE Return([k |-> "inst", cls |-> cls, obj_id |-> id.value])

APIObjectID_to_dict(self) == [Ref_Key |-> self.obj_id]

\* NamedAPIObject (also Organization and Person, which add nothing)
NamedAPIObject_init_from_dict(cls, dict_in) ==
  LET id == get_item(dict_in, "Ref_Key", TRUE)
      name == get_item(dict_in, "Description", TRUE)
      bad == FirstRaise(<<id, name>>) IN
  IF Raised(bad) THEN bad
  ELSE Return([k |-> "inst", cls |-> cls, obj_id |-> id.value, name |-> name.value])

NamedAPIObject_to_dict(self) ==
  Merge(APIObjectID_to_dict(self), [Description |-> self.name])

TimeGroup_init_from_dict(dict_in) ==
  LET id == get_item(dict_in, "Ref_Key", TRUE)
      name == get_item(dict_in, "Description", TRUE)
      letter == get_item(dict_in, "BukvennyyKod", TRUE)
      digit == get_item(dict_in, "TsifrovoyKod", TRUE)
      bad == FirstRaise(<<id, name, letter, digit>>) IN
  IF Raised(bad) THEN bad
  ELSE Return([k |-> "inst", cls |-> "TimeGroup", obj_id |-> id.value,
               name |-> name.value, letter |-> letter.value, digit |-> digit.value])

TimeGroup_to_dict(self) ==
  Return(DropFalsy(Merge(NamedAPIObject_to_dict(self),
                         [BukvennyyKod |-> self.letter, TsifrovoyKod |-> self.digit])))

Employee_init_from_dict(dict_in) ==
  LET id == get_item(dict_in, "Ref_Key", TRUE)
      name == get_item(dict_in, "Description", TRUE)
      person == get_item(dict_in, "FizicheskoeLitso_Key", TRUE)
      organization == get_item(dict_in, "GolovnayaOrganizatsiya_Key", TRUE)
      bad == FirstRaise(<<id, name, person, organization>>) IN
  IF Raised(bad) THEN bad
  ELSE Return([k |-> "inst", cls |-> "Employee", obj_id |-> id.value,
               name |-> name.value, person |-> APIObjectID(person.value),
               organization |-> APIObjectID(organization.value)])

Employee_to_dict(self) ==
  LET person == AttrObjId(self.person)
      organization == AttrObjId(self.organization)
      bad == FirstRaise(<<person, organization>>) IN
  IF Raised(bad) THEN bad
  ELSE Return(DropFalsy(Merge(NamedAPIObject_to_dict(self),
                              [FizicheskoeLitso_Key |-> person.value,
                               GolovnayaOrganizatsiya_Key |-> organization.value])))

---------------------------------------------------------------------------
(* Timesheet encoding: TimeSheetRecord and TimeSheetLine.                  *)

\* range(1, 32) of TimeSheetLine.init_from_dict
DAYS == 31

DayRange == 1..DAYS

\* f'Chasov{day}', f'VidVremeni{day}_Key', ...
DayKey(prefix, day, suffix) == prefix \o ToString(day) \o suffix

HoursKey(day) == DayKey("Chasov", day, "")
TimeGroupKey(day) == DayKey("VidVremeni", day, "_Key")
TerritoryKey(day) == DayKey("Territoriya", day, "_Key")
WorkingConditionsKey(day) == DayKey("UsloviyaTruda", day, "_Key")
WorkShiftKey(day) == DayKey("PerekhodyashchayaChastSmeny", day, "")

DayKeys(day) ==
  {HoursKey(day), TimeGroupKey(day), TerritoryKey(day),
   WorkingConditionsKey(day), WorkShiftKey(day)}

AllDayKeys == UNION {DayKeys(day) : day \in DayRange}

\* int(x) of a number given in hundredths of the unit q: truncation toward 0
IntTrunc(c, q) == IF c >= 0 THEN c \div q ELSE -((-c) \div q)

\* the mutant stores int(hours), dropping the tenths
ToTenthsWhole(c) == IntTrunc(c, 100)

\* int(hours*10) for hours given in hundredths.  For an input with at most
\* one decimal digit the float product hours*10 is the exact integer (checked
\* for every such double up to 10000 hours), so the product is exact here.
ToTenths(c) == IntTrunc(c, 10)

\* TimeSheetRecord.__init__: hours*10 raises TypeError for None; True and
\* False count as 1 and 0; "" * 10 is "" and int("") raises ValueError.
\* (Other strings and containers are not among the inputs.)
TimeSheetRecord(day, hours, time_group, territory, working_conditions, work_shift) ==
  IF hours.k \in {"num", "bool"}
  THEN Return([k |-> "inst", cls |-> "TimeSheetRecord", day |-> day,
               _hours |-> ToTenths(AsNum(hours).v),
               time_group |-> time_group, territory |-> territory,
               working_conditions |-> working_conditions, work_shift |-> work_shift])
  ELSE IF hours.k = "str"
  THEN Raise("ValueError", [tmpl |-> "invalid literal for int()"])
  ELSE Raise("TypeError", [tmpl |-> "unsupported operand type(s) for *"])

\* TimeSheetRecord.get_hours: self._hours/10, a float, in hundredths
get_hours(self) == JNum(self._hours * 10)

\* one element of the list comprehension of TimeSheetLine.init_from_dict
RecordFromDict(dict_in, day) ==
  LET hours == get_item(dict_in, HoursKey(day), TRUE)
      time_group == get_item(dict_in, TimeGroupKey(day), TRUE)
      territory == get_item(dict_in, TerritoryKey(day), TRUE)
      working_conditions == get_item(dict_in, WorkingConditionsKey(day), TRUE)
      work_shift == get_item(dict_in, WorkShiftKey(day), TRUE)
      bad == FirstRaise(<<hours, time_group, territory, working_conditions, work_shift>>) IN
  IF Raised(bad) THEN bad
  ELSE TimeSheetRecord(day, hours.value, APIObjectID(time_group.value),
                       APIObjectID(territory.value),
                       APIObjectID(working_conditions.value), work_shift.value)

RecordsFromDict(dict_in) == [day \in DayRange |-> RecordFromDict(dict_in, day)]

TimeSheetLine_init_from_dict(dict_in) ==
  LET id == get_item(dict_in, "Ref_Key", TRUE)
      number == get_item(dict_in, "LineNumber", TRUE)
      employee == get_item(dict_in, "Sotrudnik_Key", TRUE)
      records == RecordsFromDict(dict_in)
      bad == FirstRaise(<<id, number, employee>> \o records) IN
  IF Raised(bad) THEN bad
  ELSE Return([k |-> "inst", cls |-> "TimeSheetLine", obj_id |-> id.value,
               number |-> number.value, employee |-> APIObjectID(employee.value),
               time_sheet_records |-> [i \in DOMAIN records |-> records[i].value]])

\* tsr_dict = {tsr.day: tsr for tsr in self.time_sheet_records}: the last
\* record of a day wins
TsrDict(records) ==
  [day \in {records[i].day : i \in DOMAIN records} |->
     records[CHOOSE i \in DOMAIN records :
               /\ records[i].day = day
               /\ \A j \in DOMAIN records : records[j].day = day => j <= i]]

\* the mutant keeps the commented-out filter of models.py:344
LineDictFiltered(d) == DropFalsy(d)

LineDict(d) == d

TimeSheetLine_to_dict(self) ==
  LET tsr_dict == TsrDict(self.time_sheet_records)
      days == DOMAIN tsr_dict
      refs == {self.employee}
                \cup {tsr_dict[day].time_group : day \in days}
                \cup {tsr_dict[day].territory : day \in days}
                \cup {tsr_dict[day].working_conditions : day \in days} IN
  IF \E x \in refs : Raised(AttrObjId(x))
  THEN Raise("AttributeError", [tmpl |-> "obj_id"])
  ELSE LET keys == UNION {DayKeys(day) : day \in days}
           DayOf(key) == CHOOSE day \in days : key \in DayKeys(day)
           Value(key) ==
             LET day == DayOf(key)
                 tsr == tsr_dict[day] IN
             CASE key = HoursKey(day) -> get_hours(tsr)
               [] key = TimeGroupKey(day) -> tsr.time_group.obj_id
               [] key = TerritoryKey(day) -> tsr.territory.obj_id
               [] key = WorkingConditionsKey(day) -> tsr.working_conditions.obj_id
               [] key = WorkShiftKey(day) -> tsr.work_shift
       IN Return(LineDict(Merge(Merge(APIObjectID_to_dict(self),
                                      [LineNumber |-> self.number,
                                       Sotrudnik_Key |-> self.employee.obj_id]),
                                [key \in keys |-> Value(key)])))

---------------------------------------------------------------------------
(* Dates.  A date is [k |-> "date", y, m, d]; a datetime adds hh, mi, ss.  *)
(* datetime.fromisoformat is the inverse of isoformat on the date-times    *)
(* below, accepts the date-only form, and rejects every other string.      *)

Date(y, m, d) == [k |-> "date", y |-> y, m |-> m, d |-> d]
DateTime(y, m, d, hh, mi, ss) ==
  [k |-> "datetime", y |-> y, m |-> m, d |-> d, hh |-> hh, mi |-> mi, ss |-> ss]

DateTimes ==
  {DateTime(2021, m, d, hh, mi, 0) : m \in {6, 12}, d \in {1, 30}, hh \in {0, 12}, mi \in {0, 30}}

Pad2(n) == IF n < 10 THEN "0" \o ToString(n) ELSE ToString(n)

\* date.isoformat(): YYYY-MM-DD
date_isoformat(x) == ToString(x.y) \o "-" \o Pad2(x.m) \o "-" \o Pad2(x.d)

\* datetime.isoformat() of a datetime without microseconds or timezone
datetime_isoformat(x) ==
  date_isoformat(x) \o "T" \o Pad2(x.hh) \o ":" \o Pad2(x.mi) \o ":" \o Pad2(x.ss)

\* datetime.date()
date_of(x) == Date(x.y, x.m, x.d)

\* datetime.combine(d, datetime.min.time())
combine_min(x) == DateTime(x.y, x.m, x.d, 0, 0, 0)

\* datetime.fromisoformat(value): TypeError unless value is a str,
\* ValueError for a str that is no ISO date-time
fromisoformat(value) ==
  IF value.k # "str"
  THEN Raise("TypeError", [tmpl |-> "fromisoformat: argument must be str"])
  ELSE IF \E x \in DateTimes : datetime_isoformat(x) = value.v
  THEN Return(CHOOSE x \in DateTimes : datetime_isoformat(x) = value.v)
  ELSE IF \E x \in DateTimes : date_isoformat(x) = value.v
  THEN Return(combine_min(CHOOSE x \in DateTimes : date_isoformat(x) = value.v))
  ELSE Raise("ValueError", [tmpl |-> "Invalid isoformat string", value |-> value])

\* datetime.fromisoformat(r) of a looked-up value, unless the lookup raised
FromIso(r) == IF Raised(r) THEN r ELSE fromisoformat(r.value)

\* datetime.fromisoformat(r).date()
IsoDate(r) ==
  LET x == FromIso(r) IN IF Raised(x) THEN x ELSE Return(date_of(x.value))

---------------------------------------------------------------------------
(* TimeSheet.                                                              *)

\* dict_in['DannyeOVremeni'] and the comprehension over it: a plain lookup
\* (KeyError when absent), TypeError when the value is no list of dicts
LinesFromDict(dict_in) ==
  IF "DannyeOVremeni" \notin DOMAIN dict_in
  THEN Raise("KeyError", [tmpl |-> "DannyeOVremeni"])
  ELSE LET ds == dict_in["DannyeOVremeni"] IN
    IF ds.k # "list" \/ \E i \in DOMAIN ds.v : ds.v[i].k # "obj"
    THEN Raise("TypeError", [tmpl |-> "not a list of dicts"])
    ELSE LET lines == [i \in DOMAIN ds.v |-> TimeSheetLine_init_from_dict(ds.v[i].v)]
             bad == FirstRaise(lines) IN
      IF Raised(bad) THEN bad
      ELSE Return(JList([i \in DOMAIN lines |-> lines[i].value]))

\* x if x else None
OrNone(x) == IF Truthy(x) THEN x ELSE JNull

\* TimeSheet.__init__
TimeSheet(obj_id, period, organization, date_start, date_end, time_sheet_lines, number, datetime_stamp, orgunit) ==
  [k |-> "inst", cls |-> "TimeSheet", obj_id |-> obj_id, period |-> period,
   organization |-> organization, date_start |-> date_start, date_end |-> date_end,
   time_sheet_lines |-> time_sheet_lines, number |-> OrNone(number),
   datetime_stamp |-> OrNone(datetime_stamp), orgunit |-> OrNone(orgunit)]

TimeSheet_init_from_dict(dict_in) ==
  LET id == get_item(dict_in, "Ref_Key", TRUE)
      period == IsoDate(get_item(dict_in, "PeriodRegistratsii", TRUE))
      organization == get_item(dict_in, "Organizatsiya_Key", TRUE)
      date_start == IsoDate(get_item(dict_in, "DataNachalaPerioda", TRUE))
      date_end == IsoDate(get_item(dict_in, "DataOkonchaniyaPerioda", TRUE))
      lines == LinesFromDict(dict_in)
      number == get_item(dict_in, "Number", TRUE)
      datetime_stamp == FromIso(get_item(dict_in, "Date", TRUE))
      orgunit == get_item(dict_in, "Podrazdelenie_Key", TRUE)
      bad == FirstRaise(<<id, period, organization, date_start, date_end, lines,
                          number, datetime_stamp, orgunit>>) IN
  IF Raised(bad) THEN bad
  ELSE Return(TimeSheet(id.value, period.value, APIObjectID(organization.value),
                        date_start.value, date_end.value, lines.value.v, number.value,
                        datetime_stamp.value, APIObjectID(orgunit.value)))

\* datetime.combine(x, datetime.min.time()).isoformat() if x else None
MidnightStr(x) ==
  IF ~Truthy(x) THEN Return(JNull)
  ELSE IF x.k \in {"date", "datetime"} THEN Return(JStr(datetime_isoformat(combine_min(x))))
  ELSE Raise("TypeError", [tmpl |-> "combine() argument 1 must be datetime.date"])

\* x.isoformat() if x else None
StampStr(x) ==
  IF ~Truthy(x) THEN Return(JNull)
  ELSE IF x.k = "datetime" THEN Return(JStr(datetime_isoformat(x)))
  ELSE IF x.k = "date" THEN Return(JStr(date_isoformat(x)))
  ELSE Raise("AttributeError", [tmpl |-> "isoformat"])

\* x.obj_id if x else None
OrgunitStr(x) == IF ~Truthy(x) THEN Return(JNull) ELSE AttrObjId(x)

\* the mutant returns the mapping unfiltered
SheetDictUnfiltered(d) == d

SheetDict(d) == DropFalsy(d)

TimeSheet_to_dict(self) ==
  LET date_start_str == MidnightStr(self.date_start)
      date_end_str == MidnightStr(self.date_end)
      datetime_stamp_str == StampStr(self.datetime_stamp)
      period_str == MidnightStr(self.period)
      orgunit_str == OrgunitStr(self.orgunit)
      organization == AttrObjId(self.organization)
      lines == [i \in DOMAIN self.time_sheet_lines |->
                  TimeSheetLine_to_dict(self.time_sheet_lines[i])]
      bad == FirstRaise(<<date_start_str, date_end_str, datetime_stamp_str, period_str,
                          orgunit_str, organization>> \o lines) IN
  IF Raised(bad) THEN bad
  ELSE Return(SheetDict(
         Merge(APIObjectID_to_dict(self),
               [Number |-> self.number, Date |-> datetime_stamp_str.value,
                PeriodRegistratsii |-> period_str.value,
                Organizatsiya_Key |-> organization.value,
                Podrazdelenie_Key |-> orgunit_str.value,
                DataNachalaPerioda |-> date_start_str.value,
                DataOkonchaniyaPerioda |-> date_end_str.value,
                DannyeOVremeni |-> JList([i \in DOMAIN lines |-> JObj(lines[i].value)])])))

---------------------------------------------------------------------------
(* TimeEntry.  get_datetime and to_dict name ClockifyDatetime, which the   *)
(* module does not define (the class is Client1CDatetime): reaching either *)
(* use raises NameError.                                                   *)

\* cls.get_item on a value that may be no dict: dict_in[key] of None or of a
\* str raises TypeError, which get_item does not catch
get_item_of(x, key, raise_error) ==
  IF x.k = "obj" THEN get_item(x.v, key, raise_error)
  ELSE Raise("TypeError", [tmpl |-> "not subscriptable"])

\* APIObject.get_datetime
get_datetime(x, key, raise_error) ==
  LET date_str == get_item_of(x, key, raise_error) IN
  IF Raised(date_str) THEN date_str
  ELSE IF ~Truthy(date_str.value) THEN Return(JNull)
  ELSE Raise("NameError", [tmpl |-> "name 'ClockifyDatetime' is not defined"])

\* APIObjectID(obj_id=x) if x else None
RefOrNone(x) == IF Truthy(x) THEN APIObjectID(x) ELSE JNull

\* [APIObjectID(obj_id=t_i) for t_i in tag_ids] if tag_ids else None
TagsOrNone(x) ==
  IF ~Truthy(x) THEN Return(JNull)
  ELSE IF x.k = "list" THEN Return(JList([i \in DOMAIN x.v |-> APIObjectID(x.v[i])]))
  ELSE Raise("TypeError", [tmpl |-> "not iterable"])

TimeEntry_init_from_dict(dict_in) ==
  LET interval == get_item(dict_in, "timeInterval", TRUE)
      id == get_item(dict_in, "id", TRUE)
      start == IF Raised(interval) THEN interval
               ELSE get_datetime(interval.value, "start", TRUE)
      user_id == get_item(dict_in, "userId", FALSE)
      description == get_item(dict_in, "description", FALSE)
      project_id == get_item(dict_in, "projectId", FALSE)
      task_id == get_item(dict_in, "taskId", FALSE)
      tags == TagsOrNone(get_item(dict_in, "tagIds", FALSE).value)
      end == IF Raised(interval) THEN interval
             ELSE get_datetime(interval.value, "end", FALSE)
      bad == FirstRaise(<<interval, id, start, user_id, description, project_id,
                          task_id, tags, end>>) IN
  IF Raised(bad) THEN bad
  ELSE Return([k |-> "inst", cls |-> "TimeEntry", obj_id |-> id.value,
               start |-> start.value, user |-> APIObjectID(user_id.value),
               description |-> description.value,
               project |-> RefOrNone(project_id.value), task |-> RefOrNone(task_id.value),
               tags |-> tags.value, end |-> end.value])

\* the "start" entry of the dict literal is the first to raise
TimeEntry_to_dict(self) ==
  Raise("NameError", [tmpl |-> "name 'ClockifyDatetime' is not defined"])

---------------------------------------------------------------------------
(* Client1CDatetime.  A timezone-aware datetime carries tz, its offset     *)
(* from UTC in minutes; a naive one has no tz.  tzlocal is the offset of   *)
(* the local timezone of the process, one value per run.                   *)

DaysIn(m) == IF m = 2 THEN 28 ELSE IF m \in {4, 6, 9, 11} THEN 30 ELSE 31

RECURSIVE DaysBefore(_)
DaysBefore(m) == IF m = 1 THEN 0 ELSE DaysBefore(m - 1) + DaysIn(m - 1)

\* minutes from the start of the year to the wall-clock reading of x
MinuteOfYear(x) == ((DaysBefore(x.m) + x.d - 1) * 24 + x.hh) * 60 + x.mi

\* the wall-clock reading n minutes into year y, with seconds ss
AtMinute(y, n, ss) ==
  LET day == n \div 1440
      m == CHOOSE mm \in 1..12 : DaysBefore(mm) <= day /\ day < DaysBefore(mm) + DaysIn(mm) IN
  DateTime(y, m, day - DaysBefore(m) + 1, (n % 1440) \div 60, n % 60, ss)

IsAware(x) == "tz" \in DOMAIN x

\* datetime.replace(tzinfo=tz): the same wall-clock reading, tz attached
replace_tzinfo(x, tz) ==
  [key \in (DOMAIN x) \cup {"tz"} |-> IF key = "tz" THEN tz ELSE x[key]]

\* datetime.astimezone(tz) of an aware datetime: the same instant read in tz
astimezone(x, tz) ==
  replace_tzinfo(AtMinute(x.y, MinuteOfYear(x) - x.tz + tz, x.ss), tz)

\* Client1CDatetime.__init__: a datetime without tzinfo gets the local zone
Client1CDatetime(datetime_in, tzlocal) ==
  [k |-> "inst", cls |-> "Client1CDatetime",
   datetime |-> IF IsAware(datetime_in) THEN datetime_in
                ELSE replace_tzinfo(datetime_in, tzlocal)]

\* Client1CDatetime.datetime_utc
datetime_utc(self) == astimezone(self.datetime, 0)

\* Client1CDatetime.datetime_local
datetime_local(self, tzlocal) == astimezone(self.datetime, tzlocal)

\* Client1CDatetime.clockify_datetime: the class defines datetime_format,
\* not clockify_datetime_format, so reading the attribute raises
clockify_datetime(self) ==
  Raise("AttributeError",
        [tmpl |-> "'Client1CDatetime' object has no attribute 'clockify_datetime_format'"])

\* Client1CDatetime.__str__
Client1CDatetime_str(self) == clockify_datetime(self)

\* offsets of the local timezone, in minutes: west of, at and east of UTC
LocalOffsets == {-300, 0, 180}

\* the date-times a string may spell: DateTimes and their readings in UTC
Readings ==
  DateTimes \cup {AtMinute(x.y, MinuteOfYear(x) - z, x.ss) : x \in DateTimes, z \in LocalOffsets}

\* dateutil.parser.parse: an ISO date-time, with a trailing Z read as UTC;
\* ParserError, a ValueError, for a string that holds no date
date_parser_parse(value) ==
  IF value.k # "str"
  THEN Raise("TypeError", [tmpl |-> "Parser must be a string or character stream"])
  ELSE IF \E x \in Readings : datetime_isoformat(x) \o "Z" = value.v
  THEN Return(replace_tzinfo(CHOOSE x \in Readings : datetime_isoformat(x) \o "Z" = value.v, 0))
  ELSE IF \E x \in Readings : datetime_isoformat(x) = value.v
  THEN Return(CHOOSE x \in Readings : datetime_isoformat(x) = value.v)
  ELSE Raise("ValueError", [tmpl |-> "Unknown string format", value |-> value])

\* Client1CDatetime.init_from_string
Client1CDatetime_init_from_string(clockify_date_string, tzlocal) ==
  LET parsed == date_parser_parse(clockify_date_string) IN
  IF Raised(parsed) THEN parsed ELSE Return(Client1CDatetime(parsed.value, tzlocal))

---------------------------------------------------------------------------
(* Inputs: the fragments, constructor arguments and operands the calls are *)
(* made on.                                                                *)

\* hours range over every hundredth from -MaxHours to MaxHours
MaxHours == 9

\* at most this many lines in a timesheet
MaxLines == 2

HourInputs == {JNum(c) : c \in (-(MaxHours * 100))..(MaxHours * 100)}

Ids == {JStr("id-1"), JStr("id-2")}

RefValues == {JStr("id-1"), JStr("id-2"), JStr(""), JNull}

NameValues == {JStr("name-1"), JStr(""), JNull}

\* every fragment of F with one key removed
Removals(F) == {Without(F, key) : key \in DOMAIN F}

\* F with one value replaced by a value of V
Replacements(F, keys, V) == {[F EXCEPT ![key] = v] : key \in keys, v \in V}

BaseID == [Ref_Key |-> JStr("id-1")]

BaseNamed == [Ref_Key |-> JStr("id-1"), Description |-> JStr("name-1")]

BaseTimeGroup ==
  [Ref_Key |-> JStr("id-1"), Description |-> JStr("name-1"),
   BukvennyyKod |-> JStr("B"), TsifrovoyKod |-> JStr("01")]

BaseEmployee ==
  [Ref_Key |-> JStr("id-1"), Description |-> JStr("name-1"),
   FizicheskoeLitso_Key |-> JStr("id-2"), GolovnayaOrganizatsiya_Key |-> JStr("id-1")]

\* a fully populated line: one-decimal hours, with zero hours, empty and null
\* references and false flags on some days
BaseLineValue(key, day) ==
  CASE key = HoursKey(day) -> JNum(10 * ((day * 7) % 90))
    [] key = TimeGroupKey(day) -> IF day > 28 THEN JStr("") ELSE JStr("id-1")
    [] key = TerritoryKey(day) -> IF day % 2 = 0 THEN JNull ELSE JStr("id-2")
    [] key = WorkingConditionsKey(day) -> JStr("id-1")
    [] key = WorkShiftKey(day) -> JBool(day % 7 = 0)

BaseLine ==
  Merge([Ref_Key |-> JStr("id-1"), LineNumber |-> JStr("4"), Sotrudnik_Key |-> JStr("id-2")],
        [key \in AllDayKeys |->
           BaseLineValue(key, CHOOSE day \in DayRange : key \in DayKeys(day))])

LineHours == {JNum(0), JNum(830), JNum(825), JNum(-50), JNull, JBool(TRUE)}

LineFragments ==
  {BaseLine, Merge(BaseLine, [odata_metadata |-> JStr("m")])}
    \cup Removals(BaseLine)
    \cup Replacements(BaseLine, {HoursKey(day) : day \in DayRange}, LineHours)
    \cup Replacements(BaseLine, {TimeGroupKey(day) : day \in DayRange}, RefValues)
    \cup Replacements(BaseLine, {WorkShiftKey(day) : day \in DayRange},
                      {JBool(TRUE), JBool(FALSE), JNull})
    \cup Replacements(BaseLine, {"Ref_Key", "LineNumber", "Sotrudnik_Key"}, RefValues)

SheetLineFragments ==
  {BaseLine, Without(BaseLine, "Ref_Key"), Without(BaseLine, HoursKey(DAYS)),
   [BaseLine EXCEPT !["Ref_Key"] = JStr("id-2")]}

SheetLines ==
  {<< >>} \cup {<<JObj(a)>> : a \in SheetLineFragments}
    \cup {s \in [1..MaxLines -> {JObj(BaseLine), JObj([BaseLine EXCEPT !["Ref_Key"] = JStr("id-2")])}] : TRUE}

DateStrings ==
  {JStr("2021-06-01T00:00:00"), JStr("2021-06-30T00:00:00"), JStr("2021-06-01T12:30:00"),
   JStr("2021-06-01"), JStr("01.06.2021"), JStr(""), JNull}

BaseSheet ==
  [Ref_Key |-> JStr("id-1"), PeriodRegistratsii |-> JStr("2021-06-01T00:00:00"),
   Organizatsiya_Key |-> JStr("id-2"), DataNachalaPerioda |-> JStr("2021-06-01T00:00:00"),
   DataOkonchaniyaPerioda |-> JStr("2021-06-30T00:00:00"),
   DannyeOVremeni |-> JList(<<JObj(BaseLine)>>), Number |-> JStr("0000-000045"),
   Date |-> JStr("2021-06-30T12:30:00"), Podrazdelenie_Key |-> JStr("id-1")]

OptionalSheetKeys == {"Number", "Date", "Podrazdelenie_Key"}

SheetFragments ==
  {BaseSheet}
    \cup Removals(BaseSheet)
    \cup {[key \in (DOMAIN BaseSheet) \ gone |-> BaseSheet[key]] : gone \in SUBSET OptionalSheetKeys}
    \cup {Without(Without(BaseSheet, "DannyeOVremeni"), key) : key \in DOMAIN BaseSheet}
    \cup Replacements(BaseSheet,
                      {"PeriodRegistratsii", "DataNachalaPerioda", "DataOkonchaniyaPerioda", "Date"},
                      DateStrings)
    \cup Replacements(BaseSheet, {"Ref_Key", "Organizatsiya_Key", "Number", "Podrazdelenie_Key"},
                      RefValues)
    \cup {[BaseSheet EXCEPT !["DannyeOVremeni"] = JList(ls)] : ls \in SheetLines}
    \cup {[BaseSheet EXCEPT !["DannyeOVremeni"] = JNull]}

BaseInterval == [start |-> JStr("2021-06-01T08:00:00Z"), end |-> JStr("2021-06-01T16:00:00Z")]

Intervals ==
  {JObj(BaseInterval), JObj(Without(BaseInterval, "start")), JObj(Without(BaseInterval, "end")),
   JObj([BaseInterval EXCEPT !["start"] = JStr("")]),
   JObj([start |-> JNull]), JObj([start |-> JStr("yesterday"), end |-> JNull]), JNull}

BaseEntry ==
  [id |-> JStr("id-1"), timeInterval |-> JObj([start |-> JStr("")]), userId |-> JStr("id-2"),
   description |-> JStr("name-1"), projectId |-> JStr("id-1"), taskId |-> JNull,
   tagIds |-> JList(<<JStr("id-1"), JStr("id-2")>>)]

EntryFragments ==
  {BaseEntry}
    \cup Removals(BaseEntry)
    \cup Replacements(BaseEntry, {"timeInterval"}, Intervals)
    \cup {Without([BaseEntry EXCEPT !["timeInterval"] = i], "id") : i \in Intervals}

Classes ==
  {"APIObjectID", "NamedAPIObject", "Organization", "Person", "TimeGroup", "Employee",
   "TimeSheetLine", "TimeSheet", "TimeEntry"}

FragmentsOf(cls) ==
  CASE cls = "APIObjectID" ->
         {BaseID, EmptyDict} \cup Replacements(BaseID, {"Ref_Key"}, RefValues)
    [] cls \in {"NamedAPIObject", "Organization", "Person"} ->
         {BaseNamed, EmptyDict} \cup Removals(BaseNamed)
           \cup Replacements(BaseNamed, DOMAIN BaseNamed, NameValues)
    [] cls = "TimeGroup" ->
         {BaseTimeGroup, EmptyDict} \cup Removals(BaseTimeGroup)
           \cup Replacements(BaseTimeGroup, DOMAIN BaseTimeGroup, NameValues)
    [] cls = "Employee" ->
         {BaseEmployee, EmptyDict} \cup Removals(BaseEmployee)
           \cup Replacements(BaseEmployee, DOMAIN BaseEmployee, RefValues)
    [] cls = "TimeSheetLine" -> LineFragments \cup {EmptyDict}
    [] cls = "TimeSheet" -> SheetFragments \cup {EmptyDict}
    [] cls = "TimeEntry" -> EntryFragments \cup {EmptyDict}

\* cls.init_from_dict(dict_in)
init_from_dict(cls, dict_in) ==
  CASE cls = "APIObjectID" -> APIObjectID_init_from_dict(cls, dict_in)
    [] cls \in {"NamedAPIObject", "Organization", "Person"} ->
         NamedAPIObject_init_from_dict(cls, dict_in)
    [] cls = "TimeGroup" -> TimeGroup_init_from_dict(dict_in)
    [] cls = "Employee" -> Employee_init_from_dict(dict_in)
    [] cls = "TimeSheetLine" -> TimeSheetLine_init_from_dict(dict_in)
    [] cls = "TimeSheet" -> TimeSheet_init_from_dict(dict_in)
    [] cls = "TimeEntry" -> TimeEntry_init_from_dict(dict_in)

\* self.to_dict(), dispatched on the class of self
to_dict(self) ==
  CASE self.cls = "APIObjectID" -> Return(APIObjectID_to_dict(self))
    [] self.cls \in {"NamedAPIObject", "Organization", "Person"} ->
         Return(NamedAPIObject_to_dict(self))
    [] self.cls = "TimeGroup" -> TimeGroup_to_dict(self)
    [] self.cls = "Employee" -> Employee_to_dict(self)
    [] self.cls = "TimeSheetLine" -> TimeSheetLine_to_dict(self)
    [] self.cls = "TimeSheet" -> TimeSheet_to_dict(self)
    [] self.cls = "TimeEntry" -> TimeEntry_to_dict(self)

---------------------------------------------------------------------------
(* Constructors and comparison.                                            *)

\* NamedAPIObject.__init__ (Organization and Person inherit it)
NamedAPIObject(cls, obj_id, name) ==
  [k |-> "inst", cls |-> cls, obj_id |-> obj_id, name |-> name]

\* TimeGroup.__init__
TimeGroup(obj_id, name, letter, digit) ==
  [k |-> "inst", cls |-> "TimeGroup", obj_id |-> obj_id, name |-> name,
   letter |-> letter, digit |-> digit]

\* Employee.__init__
Employee(obj_id, name, person, organization) ==
  [k |-> "inst", cls |-> "Employee", obj_id |-> obj_id, name |-> name,
   person |-> person, organization |-> organization]

\* TimeSheetLine.__init__: the records are stored as given
TimeSheetLine(obj_id, number, employee, time_sheet_records) ==
  [k |-> "inst", cls |-> "TimeSheetLine", obj_id |-> obj_id, number |-> number,
   employee |-> employee, time_sheet_records |-> time_sheet_records]

\* the mutant compares the instances field by field
EqByValue(self, other) == Return(JBool(self = other))

\* APIObjectID.__eq__: `if other` is false for None and true for every
\* instance (no class defines __bool__ or __len__)
APIObjectID_eq(self, other) ==
  IF Truthy(other)
  THEN IF IsInst(other) /\ "obj_id" \in DOMAIN other
       THEN Return(JBool(PyEq(self.obj_id, other.obj_id)))
       ELSE Raise("AttributeError", [tmpl |-> "obj_id"])
  ELSE Return(JBool(FALSE))

\* APIObjectID.__ne__
APIObjectID_ne(self, other) ==
  LET e == APIObjectID_eq(self, other) IN
  IF Raised(e) THEN e ELSE Return(JBool(~e.value.v))

\* hash(x) of a built-in value: a function of the value that agrees on
\* values that compare equal (1, 1.0 and True) and may collide on values
\* that do not; a list or dict has no hash
PyHash(x) ==
  CASE x.k = "null" -> Return(0)
    [] x.k = "str" -> Return(Len(x.v))
    [] x.k \in {"num", "bool"} -> Return(AsNum(x))
    [] OTHER -> Raise("TypeError", [tmpl |-> "unhashable type"])

\* the mutant hashes the class name along with the id
hash_with_class(self) ==
  LET h == PyHash(self.obj_id) IN
  IF Raised(h) THEN h ELSE Return(h.value + 1000 * Len(self.cls))

\* APIObjectID.__hash__: self.obj_id.__hash__()
APIObjectID_hash(self) == PyHash(self.obj_id)

\* hash(x) of an operand: __hash__ of an instance, the built-in one of None
hash_of(x) == IF IsInst(x) THEN APIObjectID_hash(x) ELSE PyHash(x)

\* {self, other}: other is added unless an element with the same hash
\* compares equal to it
set_of(self, other) ==
  LET h1 == hash_of(self)
      h2 == hash_of(other)
      same == APIObjectID_eq(self, other) IN
  IF Raised(h1) THEN h1
  ELSE IF Raised(h2) THEN h2
  ELSE IF h1.value # h2.value THEN Return(<<self, other>>)
  ELSE IF Raised(same) THEN same
  ELSE IF same.value.v THEN Return(<<self>>)
  ELSE Return(<<self, other>>)

BaseRecords == RecordsFromDict(BaseLine)

BaseRecordList == [i \in DOMAIN BaseRecords |-> BaseRecords[i].value]

\* the record lists a caller may hand to TimeSheetLine: the 31 of a parsed
\* line, none, the first 28, and lists with a day repeated or out of 1..31
RecordLists ==
  {BaseRecordList, << >>, SubSeq(BaseRecordList, 1, 28),
   Append(BaseRecordList, [BaseRecordList[1] EXCEPT !._hours = 5]),
   [BaseRecordList EXCEPT ![DAYS] = [@ EXCEPT !.day = DAYS + 1]],
   [BaseRecordList EXCEPT ![2] = [@ EXCEPT !.territory = JNull]]}

Refs == {APIObjectID(x) : x \in RefValues} \cup {JNull}

CodeValues == {JStr("B"), JStr(""), JNull, JInt(0)}

SheetDates == {Date(2021, 6, 1), JNull}

ConstructedLines ==
  {TimeSheetLine(id, JStr("4"), e, rs) :
     id \in Ids, e \in {APIObjectID(JStr("id-2")), JNull}, rs \in RecordLists}

ConstructedSheets ==
  {TimeSheet(JStr("id-1"), period, organization, Date(2021, 6, 1), date_end, ls,
             number, stamp, orgunit) :
     period \in SheetDates, organization \in {APIObjectID(JStr("id-2")), APIObjectID(JStr("")), JNull},
     date_end \in SheetDates,
     ls \in {<< >>, <<TimeSheetLine(JStr("id-1"), JStr("4"), APIObjectID(JStr("id-2")), BaseRecordList)>>},
     number \in {JStr("0000-000045"), JStr(""), JNull},
     stamp \in {DateTime(2021, 6, 30, 12, 30, 0), JNull},
     orgunit \in {APIObjectID(JStr("id-1")), APIObjectID(JStr("")), JNull}}

Constructed ==
  {APIObjectID(x) : x \in RefValues}
    \cup {NamedAPIObject(cls, id, name) :
            cls \in {"NamedAPIObject", "Organization", "Person"}, id \in RefValues,
            name \in NameValues}
    \cup {TimeGroup(id, name, letter, digit) :
            id \in Ids, name \in NameValues, letter \in CodeValues, digit \in CodeValues}
    \cup {Employee(id, name, person, organization) :
            id \in Ids, name \in NameValues, person \in Refs, organization \in Refs}
    \cup ConstructedLines
    \cup ConstructedSheets

\* operands of == and !=: instances of several classes sharing ids, and None
Operands ==
  {APIObjectID(x) : x \in RefValues}
    \cup {NamedAPIObject(cls, id, name) :
            cls \in {"NamedAPIObject", "Organization"}, id \in Ids, name \in NameValues}
    \cup {TimeGroup(id, JStr("name-1"), JStr("B"), digit) : id \in Ids, digit \in CodeValues}
    \cup {TimeSheetLine(id, JStr("4"), JNull, << >>) : id \in Ids}

\* naive timestamps, and aware ones in UTC and in a zone east of it
TimestampInputs ==
  DateTimes \cup {replace_tzinfo(x, z) : x \in DateTimes, z \in {0, 120}}

WireStrings ==
  {JStr(datetime_isoformat(x) \o "Z") : x \in Readings}
    \cup {JStr("2021-06-01T12:30:00"), JStr("yesterday"), JStr(""), JNull}

ServerUrl == "http://1c/odata"

Paths == {"/Catalog_Organizatsii"}

Auth == <<"user", "pass">>

\* the params a caller hands to get: none, empty, and mappings with and
\* without an entry of their own for $format
QueryParams ==
  {JNull, JObj(EmptyDict), JObj([x \in {"$top"} |-> JStr("1")]),
   JObj([x \in {FormatKey} |-> JStr("xml")]),
   JObj([x \in {FormatKey, "$filter"} |-> IF x = FormatKey THEN JStr("atom") ELSE JStr("a eq 1")])}

\* what the network does with the request: a response, or a failure
Outcomes ==
  {[kind |-> "response", response |-> r] : r \in Responses}
    \cup {[kind |-> f] : f \in NetworkFailures}

Inputs ==
  {[type |-> "response", response |-> r] : r \in Responses}
    \cup {[type |-> "fragment", cls |-> cls, dict_in |-> d] :
            cls \in Classes, d \in UNION {FragmentsOf(c) : c \in Classes}}
    \cup {[type |-> "ctor", self |-> x] : x \in Constructed}
    \cup {[type |-> "pair", self |-> a, other |-> b] : a \in Operands, b \in Operands \cup {JNull}}
    \cup {[type |-> "hours", hours |-> h] : h \in HourInputs \cup {JNull}}
    \cup {[type |-> "datetime", datetime_in |-> t, tzlocal |-> z] :
            t \in TimestampInputs, z \in LocalOffsets}
    \cup {[type |-> "string", string |-> w, tzlocal |-> z] : w \in WireStrings, z \in LocalOffsets}
    \cup {[type |-> "call", method |-> "GET", path |-> path, auth |-> Auth, params |-> q,
            outcome |-> o] : path \in Paths, q \in QueryParams, o \in Outcomes}
    \cup {[type |-> "call", method |-> m, path |-> path, auth |-> Auth, data |-> d,
            outcome |-> o] :
            m \in {"POST", "PUT", "PATCH"}, path \in Paths, d \in {JObj(BaseID), JObj(BaseTimeGroup)},
            o \in Outcomes}

---------------------------------------------------------------------------
NoObject == JNull

\* a caller holds one input and no object yet
Init ==
  /\ op = "start"
  /\ arg \in Inputs
  /\ ret = Return(JNull)
  /\ obj = NoObject
  /\ origin = "none"
  /\ url = ServerUrl
  /\ params = IF arg.type = "call" /\ arg.method = "GET" THEN arg.params ELSE JNull
  /\ sent = << >>

\* server.get(path, auth, params); params is the caller's mapping
Get ==
  /\ op = "start"
  /\ arg.type = "call"
  /\ arg.method = "GET"
  /\ LET call == APIServer_get(url, arg.path, arg.auth, params, arg.outcome) IN
       /\ sent' = send(sent, call.request, arg.outcome)
       /\ ret' = except_connection_error(call.ret)
  /\ op' = "get"
  /\ UNCHANGED <<arg, obj, origin, url, params>>

\* server.post / put / patch (path, auth, data)
Write(method, name) ==
  /\ op = "start"
  /\ arg.type = "call"
  /\ arg.method = method
  /\ LET call == APIServer_write(method, url, arg.path, arg.auth, arg.data, arg.outcome) IN
       /\ sent' = send(sent, call.request, arg.outcome)
       /\ ret' = except_connection_error(call.ret)
  /\ op' = name
  /\ UNCHANGED <<arg, obj, origin, url, params>>

Post == Write("POST", "post")

Put == Write("PUT", "put")

Patch == Write("PATCH", "patch")

\* APIRawResponse(response_raw).parse() on a response of the server
Parse ==
  /\ op = "start"
  /\ arg.type = "response"
  /\ op' = "parse"
  /\ ret' = APIRawResponse_parse(arg.response)
  /\ UNCHANGED <<arg, obj, origin, url, params, sent>>

\* cls.init_from_dict(dict_in); the caller keeps the instance it returns
InitFromDict ==
  /\ op = "start"
  /\ arg.type = "fragment"
  /\ op' = "init_from_dict"
  /\ ret' = init_from_dict(arg.cls, arg.dict_in)
  /\ obj' = IF Raised(ret') THEN NoObject ELSE ret'.value
  /\ origin' = "init_from_dict"
  /\ UNCHANGED <<arg, url, params, sent>>

\* a public constructor call
Construct ==
  /\ op = "start"
  /\ arg.type = "ctor"
  /\ op' = "__init__"
  /\ ret' = Return(arg.self)
  /\ obj' = arg.self
  /\ origin' = "__init__"
  /\ UNCHANGED <<arg, url, params, sent>>

\* line.time_sheet_records = rs: a plain attribute, reassigned as given
SetRecords ==
  /\ op \in {"init_from_dict", "__init__"}
  /\ obj # NoObject
  /\ obj.cls = "TimeSheetLine"
  /\ \E rs \in RecordLists :
       /\ rs # obj.time_sheet_records
       /\ obj' = [obj EXCEPT !.time_sheet_records = rs]
  /\ op' = "setattr"
  /\ ret' = Return(JNull)
  /\ origin' = "setattr"
  /\ UNCHANGED <<arg, url, params, sent>>

\* self.to_dict() on the instance the caller holds
ToDict ==
  /\ op \in {"init_from_dict", "__init__", "setattr"}
  /\ obj # NoObject
  /\ op' = "to_dict"
  /\ ret' = to_dict(obj)
  /\ UNCHANGED <<arg, obj, origin, url, params, sent>>

\* TimeSheetRecord(day=1, hours=h, ...)
NewRecord ==
  /\ op = "start"
  /\ arg.type = "hours"
  /\ op' = "TimeSheetRecord"
  /\ ret' = TimeSheetRecord(1, arg.hours, APIObjectID(JStr("id-1")), APIObjectID(JNull),
                            APIObjectID(JStr("")), JBool(FALSE))
  /\ obj' = IF Raised(ret') THEN NoObject ELSE ret'.value
  /\ origin' = "__init__"
  /\ UNCHANGED <<arg, url, params, sent>>

\* record.get_hours()
GetHours ==
  /\ op = "TimeSheetRecord"
  /\ obj # NoObject
  /\ op' = "get_hours"
  /\ ret' = Return(get_hours(obj))
  /\ UNCHANGED <<arg, obj, origin, url, params, sent>>

\* Client1CDatetime(datetime_in)
Adapt ==
  /\ op = "start"
  /\ arg.type = "datetime"
  /\ op' = "Client1CDatetime"
  /\ ret' = Return(Client1CDatetime(arg.datetime_in, arg.tzlocal))
  /\ obj' = ret'.value
  /\ origin' = "__init__"
  /\ UNCHANGED <<arg, url, params, sent>>

\* Client1CDatetime.init_from_string(clockify_date_string)
InitFromString ==
  /\ op = "start"
  /\ arg.type = "string"
  /\ op' = "init_from_string"
  /\ ret' = Client1CDatetime_init_from_string(arg.string, arg.tzlocal)
  /\ obj' = IF Raised(ret') THEN NoObject ELSE ret'.value
  /\ origin' = "init_from_string"
  /\ UNCHANGED <<arg, url, params, sent>>

\* str(adapter), the wire string of the adapter the caller holds
WireString ==
  /\ op \in {"Client1CDatetime", "init_from_string"}
  /\ obj # NoObject
  /\ op' = "__str__"
  /\ ret' = Client1CDatetime_str(obj)
  /\ UNCHANGED <<arg, obj, origin, url, params, sent>>

\* adapter.datetime_utc
DatetimeUtc ==
  /\ op \in {"Client1CDatetime", "init_from_string"}
  /\ obj # NoObject
  /\ op' = "datetime_utc"
  /\ ret' = Return(datetime_utc(obj))
  /\ UNCHANGED <<arg, obj, origin, url, params, sent>>

\* adapter.datetime_local
DatetimeLocal ==
  /\ op \in {"Client1CDatetime", "init_from_string"}
  /\ obj # NoObject
  /\ op' = "datetime_local"
  /\ ret' = Return(datetime_local(obj, arg.tzlocal))
  /\ UNCHANGED <<arg, obj, origin, url, params, sent>>

\* self == other
Eq ==
  /\ op = "start"
  /\ arg.type = "pair"
  /\ op' = "__eq__"
  /\ ret' = APIObjectID_eq(arg.self, arg.other)
  /\ UNCHANGED <<arg, obj, origin, url, params, sent>>

\* hash(self)
Hash ==
  /\ op = "start"
  /\ arg.type = "pair"
  /\ op' = "__hash__"
  /\ ret' = APIObjectID_hash(arg.self)
  /\ UNCHANGED <<arg, obj, origin, url, params, sent>>

\* {self, other}
SetOf ==
  /\ op = "start"
  /\ arg.type = "pair"
  /\ op' = "set"
  /\ ret' = set_of(arg.self, arg.other)
  /\ UNCHANGED <<arg, obj, origin, url, params, sent>>

\* self != other
Ne ==
  /\ op = "start"
  /\ arg.type = "pair"
  /\ op' = "__ne__"
  /\ ret' = APIObjectID_ne(arg.self, arg.other)
  /\ UNCHANGED <<arg, obj, origin, url, params, sent>>

Next ==
  \/ Get
  \/ Post
  \/ Put
  \/ Patch
  \/ Parse
  \/ InitFromDict
  \/ Construct
  \/ SetRecords
  \/ ToDict
  \/ NewRecord
  \/ GetHours
  \/ Adapt
  \/ InitFromString
  \/ WireString
  \/ DatetimeUtc
  \/ DatetimeLocal
  \/ Eq
  \/ Ne
  \/ Hash
  \/ SetOf

Spec == Init /\ [][Next]_vars

---------------------------------------------------------------------------
(* Properties.                                                             *)

ParseCall == op = "parse"
ErrorPath == ParseCall /\ arg.response.status_code \notin {200, 201}
SuccessPath == ParseCall /\ arg.response.status_code \in {200, 201}
Decodable == arg.response.text.wf
Body == arg.response.text.enc

\* the body is {"odata.error": {"code": c, "message": {"value": m}}}
ValidEnvelope ==
  /\ Decodable
  /\ Body.k = "obj"
  /\ "odata_error" \in DOMAIN Body.v
  /\ Body.v.odata_error.k = "obj"
  /\ "code" \in DOMAIN Body.v.odata_error.v
  /\ "message" \in DOMAIN Body.v.odata_error.v
  /\ Body.v.odata_error.v.message.k = "obj"
  /\ "value" \in DOMAIN Body.v.odata_error.v.message.v

EnvelopeCode == Body.v.odata_error.v.code
EnvelopeMessage == Body.v.odata_error.v.message.v.value

CarriesDecodedError ==
  /\ "error_response" \in DOMAIN ret
  /\ ret.error_response.code = EnvelopeCode
  /\ ret.error_response.message = EnvelopeMessage

\* C1 as stated: with a valid odata.error envelope, an HTTP 404 response
\* raises APIServer404 and every other status outside 200/201 raises an
\* APIServerException that is not APIServer404, each carrying the decoded
\* code and message.
C1_ClassifiedByStatus ==
  (ErrorPath /\ arg.response.status_code \notin 200..299 /\ ValidEnvelope) =>
    /\ Raised(ret)
    /\ ret.exc = (IF arg.response.status_code = 404 THEN "APIServer404"
                  ELSE "APIServerException")
    /\ CarriesDecodedError

\* C1 as amended: with a valid odata.error envelope on a status outside
\* 200/201, parse raises APIServer404 (an APIServerException) when the
\* decoded code equals 404 and an APIServerException that is not APIServer404
\* for every other code, whatever the HTTP status; each carries the decoded
\* code and message.
C1_ClassifiedByCode ==
  (ErrorPath /\ ValidEnvelope) =>
    /\ Raised(ret)
    /\ IsInstance(ret.exc, "APIServerException")
    /\ (ret.exc = "APIServer404") = (EnvelopeCode = JInt(404))
    /\ (ret.exc = "APIServerException") = (EnvelopeCode # JInt(404))
    /\ CarriesDecodedError

\* an HTTP 500 whose envelope says code 404 was raised as APIServer404
C1_Witness ==
  /\ ErrorPath /\ ValidEnvelope
  /\ arg.response.status_code = 500
  /\ EnvelopeCode = JInt(404)
  /\ Raised(ret) /\ ret.exc = "APIServer404"

\* C2: a response whose body is not JSON makes parse raise
\* APIResponseParseException carrying the raw text, on the success path and
\* on the error path alike: nothing is returned and no server failure raised.
C2_UndecodableIsParseFailure ==
  (ParseCall /\ ~Decodable) =>
    /\ Raised(ret)
    /\ ret.exc = "APIResponseParseException"
    /\ ~IsInstance(ret.exc, "APIServerException")
    /\ ret.msg.text = arg.response.text

\* undecodable bodies were parsed on both paths
C2_Witness ==
  /\ SuccessPath /\ ~Decodable
  /\ arg.response.text.raw = "<html>"
  /\ Raised(ret) /\ ret.exc = "APIResponseParseException"

\* the three ways a JSON object falls short of the envelope
NoEnvelope == "odata_error" \notin DOMAIN Body.v
ErrorMember == Body.v.odata_error
NoCode == ~NoEnvelope /\ ErrorMember.k = "obj" /\ "code" \notin DOMAIN ErrorMember.v
NoMessageValue ==
  /\ ~NoEnvelope
  /\ ErrorMember.k = "obj"
  /\ \/ "message" \notin DOMAIN ErrorMember.v
     \/ ErrorMember.v.message.k = "obj" /\ "value" \notin DOMAIN ErrorMember.v.message.v

\* C3 as stated: a non-success response whose body is JSON but has no
\* complete odata.error envelope (no code, no message.value, or no envelope)
\* makes parse raise APIResponseParseException and nothing else.
C3_IncompleteEnvelopeIsParseFailure ==
  (/\ ErrorPath /\ arg.response.status_code \notin 200..299
   /\ Decodable /\ Body.k = "obj"
   /\ (NoEnvelope \/ NoCode \/ NoMessageValue)) =>
    (Raised(ret) /\ ret.exc = "APIResponseParseException")

\* C4 as stated: a 200/201 response with a decodable body returns the content
\* of the body's value field when it has one, and the whole body otherwise.
C4_UnwrapsValue ==
  (SuccessPath /\ Decodable) =>
    ret = Return(IF Body.k = "obj" /\ "value" \in DOMAIN Body.v THEN Body.v.value ELSE Body)

\* the keys each entity type requires of a fragment
RequiredKeys(cls) ==
  CASE cls = "APIObjectID" -> {"Ref_Key"}
    [] cls \in {"NamedAPIObject", "Organization", "Person"} -> {"Ref_Key", "Description"}
    [] cls = "TimeGroup" -> {"Ref_Key", "Description", "BukvennyyKod", "TsifrovoyKod"}
    [] cls = "Employee" ->
         {"Ref_Key", "Description", "FizicheskoeLitso_Key", "GolovnayaOrganizatsiya_Key"}
    [] cls = "TimeSheetLine" -> {"Ref_Key", "LineNumber", "Sotrudnik_Key"} \cup AllDayKeys
    [] cls = "TimeSheet" ->
         {"Ref_Key", "PeriodRegistratsii", "Organizatsiya_Key", "DataNachalaPerioda",
          "DataOkonchaniyaPerioda", "DannyeOVremeni"}
    [] cls = "TimeEntry" -> {"id", "timeInterval"}

MissingKeys == RequiredKeys(arg.cls) \ DOMAIN arg.dict_in

\* C5 as stated: init_from_dict on a fragment lacking a required key of the
\* entity type raises ObjectParseException naming a key the fragment lacks
\* (Ref_Key when that is the one missing), and no other exception.
C5_MissingKeyIsObjectParseFailure ==
  (op = "init_from_dict" /\ MissingKeys # {}) =>
    /\ Raised(ret)
    /\ ret.exc = "ObjectParseException"
    /\ ret.msg.key \in MissingKeys

FullLine(x) == DOMAIN x = {"Ref_Key", "LineNumber", "Sotrudnik_Key"} \cup AllDayKeys

OneDecimalHours(x) ==
  \A day \in DayRange : x[HoursKey(day)].k = "num" /\ x[HoursKey(day)].v % 10 = 0

\* dict == dict in Python
DictEq(a, b) == DOMAIN a = DOMAIN b /\ \A key \in DOMAIN a : PyEq(a[key], b[key])

LineParsed == op = "init_from_dict" /\ arg.cls = "TimeSheetLine"
LineRoundTrip ==
  op = "to_dict" /\ origin = "init_from_dict" /\ arg.type = "fragment" /\ arg.cls = "TimeSheetLine"

NumericHours(x) == \A day \in DayRange : x[HoursKey(day)].k = "num"

\* C6 as stated: for every fully populated line fragment x (the three
\* header keys and all 5 keys of each day 1..31, its hours any numbers),
\* init_from_dict(x).to_dict() equals x.
C6_RoundTripAnyHours ==
  /\ (LineParsed /\ FullLine(arg.dict_in) /\ NumericHours(arg.dict_in)) => ~Raised(ret)
  /\ (LineRoundTrip /\ FullLine(arg.dict_in) /\ NumericHours(arg.dict_in)) =>
       (~Raised(ret) /\ DictEq(ret.value, arg.dict_in))

\* C6 as amended: for every fully populated line fragment x whose hours
\* values are numbers with at most one decimal digit,
\* init_from_dict(x).to_dict() equals x: the same 3 + 5 * 31 = 158 keys and
\* the same value under each.
C6_RoundTrip ==
  /\ (LineParsed /\ FullLine(arg.dict_in) /\ OneDecimalHours(arg.dict_in)) => ~Raised(ret)
  /\ (LineRoundTrip /\ FullLine(arg.dict_in) /\ OneDecimalHours(arg.dict_in)) =>
       /\ ~Raised(ret)
       /\ Cardinality(DOMAIN ret.value) = 3 + 5 * DAYS
       /\ DictEq(ret.value, arg.dict_in)

\* a line with 8.3 hours on day 1 went through init_from_dict and to_dict
C6_Witness ==
  /\ LineRoundTrip
  /\ arg.dict_in = [BaseLine EXCEPT ![HoursKey(1)] = JNum(830)]
  /\ ~Raised(ret)
  /\ ret.value[HoursKey(1)] = JNum(830)
  /\ ret.value[TerritoryKey(2)] = JNull

OneDecimalInput == arg.type = "hours" /\ arg.hours.k = "num" /\ arg.hours.v % 10 = 0

\* C7: a TimeSheetRecord built with hours h of at most one decimal digit
\* stores the integer 10*h and get_hours() returns exactly h.
C7_HoursExact ==
  /\ (op = "TimeSheetRecord" /\ OneDecimalInput) =>
       (~Raised(ret) /\ obj._hours * 10 = arg.hours.v)
  /\ (op = "get_hours" /\ OneDecimalInput) =>
       (ret = Return(arg.hours) /\ obj._hours * 10 = arg.hours.v)

\* hours=8.3 gave get_hours() == 8.3 from _hours == 83
C7_Witness ==
  /\ op = "get_hours"
  /\ arg.hours = JNum(830)
  /\ obj._hours = 83
  /\ ret = Return(JNum(830))

SameId == arg.other # JNull /\ arg.self.obj_id = arg.other.obj_id

\* C8: == is true and != false for two instances with the same obj_id
\* whatever their other fields, == is false and != true for different
\* obj_id, and against None == is false and != true, without raising.
C8_IdentityEquality ==
  /\ op = "__eq__" => ret = Return(JBool(SameId))
  /\ op = "__ne__" => ret = Return(JBool(~SameId))

\* two instances of different classes and fields, same obj_id, compared equal
C8_Witness ==
  /\ op = "__eq__"
  /\ arg.other # JNull
  /\ arg.self.cls # arg.other.cls
  /\ arg.self.obj_id = arg.other.obj_id
  /\ ret = Return(JBool(TRUE))

\* the wire key each field of a filtered entity is emitted under
FieldKeys(cls) ==
  CASE cls = "TimeGroup" ->
         <<<<"obj_id", "Ref_Key">>, <<"name", "Description">>, <<"letter", "BukvennyyKod">>,
           <<"digit", "TsifrovoyKod">>>>
    [] cls = "Employee" -> <<<<"obj_id", "Ref_Key">>, <<"name", "Description">>>>
    [] cls = "TimeSheet" ->
         <<<<"obj_id", "Ref_Key">>, <<"number", "Number">>, <<"datetime_stamp", "Date">>,
           <<"period", "PeriodRegistratsii">>, <<"orgunit", "Podrazdelenie_Key">>,
           <<"date_start", "DataNachalaPerioda">>, <<"date_end", "DataOkonchaniyaPerioda">>>>

FilteredCall ==
  op = "to_dict" /\ obj.cls \in {"TimeGroup", "Employee", "TimeSheet"} /\ ~Raised(ret)

\* C9: the mapping TimeGroup.to_dict, Employee.to_dict and TimeSheet.to_dict
\* return has no key whose value is None, and a field holding None has no
\* key in it.
C9_NoNullEmitted ==
  FilteredCall =>
    /\ \A key \in DOMAIN ret.value : ret.value[key] # JNull
    /\ \A i \in DOMAIN FieldKeys(obj.cls) :
         obj[FieldKeys(obj.cls)[i][1]] = JNull => FieldKeys(obj.cls)[i][2] \notin DOMAIN ret.value
    /\ (obj.cls = "Employee" /\ obj.person.obj_id = JNull) =>
         "FizicheskoeLitso_Key" \notin DOMAIN ret.value

\* a timesheet without number, stamp and unit was serialized without them
C9_Witness ==
  /\ FilteredCall
  /\ obj.cls = "TimeSheet"
  /\ obj.number = JNull /\ obj.datetime_stamp = JNull /\ obj.orgunit = JNull
  /\ DOMAIN ret.value \cap {"Number", "Date", "Podrazdelenie_Key"} = {}
  /\ "Ref_Key" \in DOMAIN ret.value

\* C10 as stated: the mapping TimeSheetLine.to_dict returns holds the 5 keys
\* of every day 1..31, 155 day keys, for every TimeSheetLine.
C10_AllDayKeysEmitted ==
  (op = "to_dict" /\ obj.cls = "TimeSheetLine" /\ ~Raised(ret)) =>
    /\ AllDayKeys \subseteq DOMAIN ret.value
    /\ Cardinality(AllDayKeys) = 5 * DAYS

\* the records of a line are the 31 of days 1..31 in day order
ThirtyOneInOrder(records) ==
  /\ Len(records) = DAYS
  /\ \A i \in DOMAIN records : records[i].day = i

HoldsLine ==
  op \in {"init_from_dict", "__init__", "setattr"} /\ obj # NoObject /\ obj.cls = "TimeSheetLine"

\* C11 as stated: every TimeSheetLine, whether init_from_dict produced it or
\* the constructor or a reassignment of time_sheet_records did, holds exactly
\* 31 records, the record at position i being that of day i.
C11_AlwaysThirtyOneRecords ==
  HoldsLine => ThirtyOneInOrder(obj.time_sheet_records)

SheetParsed == op = "init_from_dict" /\ arg.type = "fragment" /\ arg.cls = "TimeSheet"

\* the field of a TimeSheet each optional wire key is parsed into
OptionalField(key) ==
  CASE key = "Number" -> "number"
    [] key = "Date" -> "datetime_stamp"
    [] key = "Podrazdelenie_Key" -> "orgunit"

\* the optional keys a fragment lacks
Absent(x) == OptionalSheetKeys \ DOMAIN x

\* x is a valid fragment but for lacking some of the optional keys
LacksOnlyOptional(x) ==
  /\ Absent(x) # {}
  /\ x = [key \in (DOMAIN BaseSheet) \ Absent(x) |-> BaseSheet[key]]

\* C12 as stated: TimeSheet.init_from_dict of a fragment with every required
\* key that lacks some of Number, Date and Podrazdelenie_Key raises nothing
\* and returns a TimeSheet whose missing fields are None.
C12_OptionalKeysMayBeAbsent ==
  (SheetParsed /\ LacksOnlyOptional(arg.dict_in)) =>
    /\ ~Raised(ret)
    /\ \A key \in Absent(arg.dict_in) : obj[OptionalField(key)] = JNull

SheetDateKeys == {"PeriodRegistratsii", "DataNachalaPerioda", "DataOkonchaniyaPerioda", "Date"}

\* a fragment complete and valid but for one date key holding a string that
\* is no date
HasMalformedDate ==
  /\ arg.type = "fragment"
  /\ \/ /\ arg.cls = "TimeSheet"
        /\ \E key \in SheetDateKeys :
             arg.dict_in = [BaseSheet EXCEPT ![key] = JStr("01.06.2021")]
     \/ /\ arg.cls = "TimeEntry"
        /\ arg.dict_in =
             [BaseEntry EXCEPT !["timeInterval"] = JObj([start |-> JStr("yesterday"), end |-> JNull])]

\* C13 as stated: init_from_dict of a fragment with a malformed string under
\* a date key raises ObjectParseException, with a message that is not the
\* missing-key message, and no other exception type.
C13_MalformedDateIsObjectParseFailure ==
  (op = "init_from_dict" /\ HasMalformedDate) =>
    /\ Raised(ret)
    /\ ret.exc = "ObjectParseException"
    /\ ret.msg.tmpl # "Could not find key"

\* the wire string of the adapter: its instant read in UTC, formatted
\* YYYY-MM-DDTHH:MM:SSZ
WireFormat(self) == JStr(datetime_isoformat(datetime_utc(self)) \o "Z")

\* minutes from the start of the year, in UTC, to the instant x denotes
Instant(x) == MinuteOfYear(x) - x.tz

NaiveInput == arg.type = "datetime" /\ ~IsAware(arg.datetime_in)

\* the naive local timestamps whose wire string is the string parsed
WiredFrom ==
  {t \in DateTimes : WireFormat(Client1CDatetime(t, arg.tzlocal)) = arg.string}

\* C14 as stated: the adapter built from a naive local timestamp t yields,
\* without error, the wire string of t's instant in UTC, and
\* init_from_string of that string yields, without error, a timezone-aware
\* timestamp denoting the same instant as t taken in the local timezone.
C14_DatetimeRoundTrip ==
  /\ (op = "__str__" /\ NaiveInput) => ret = Return(WireFormat(obj))
  /\ (op = "init_from_string" /\ WiredFrom # {}) =>
       /\ ~Raised(ret)
       /\ IsAware(obj.datetime)
       /\ \A t \in WiredFrom : Instant(obj.datetime) = MinuteOfYear(t) - arg.tzlocal

CallDone == op \in {"get", "post", "put", "patch"}

\* C15: every request a get, post, put or patch call sends carries
\* $format=json; a get with caller params sends exactly the caller's keys
\* and $format, each other key with the caller's value, $format as json
\* even when the caller gave another value, and the caller's mapping is
\* unchanged after the call.
C15_FormatJsonAlwaysSent ==
  CallDone =>
    /\ sent # << >>
    /\ \A i \in DOMAIN sent :
         /\ FormatKey \in DOMAIN sent[i].params
         /\ sent[i].params[FormatKey] = JStr("json")
         /\ (op = "get" /\ arg.params.k = "obj") =>
              /\ DOMAIN sent[i].params = (DOMAIN arg.params.v) \cup {FormatKey}
              /\ \A key \in (DOMAIN arg.params.v) \ {FormatKey} :
                   sent[i].params[key] = arg.params.v[key]
         /\ op # "get" => DOMAIN sent[i].params = {FormatKey}
    /\ op = "get" => params = arg.params

\* a get whose caller asked for $format=atom and a $filter sent
\* $format=json and the filter, and the caller still holds $format=atom
C15_Witness ==
  /\ op = "get"
  /\ arg.params.k = "obj"
  /\ DOMAIN arg.params.v = {FormatKey, "$filter"}
  /\ sent[1].params[FormatKey] = JStr("json")
  /\ sent[1].params["$filter"] = JStr("a eq 1")
  /\ params.v[FormatKey] = JStr("atom")

Answered == arg.outcome.kind = "response"

\* the decoded body of the response the network gave
Answer == arg.outcome.response.text.enc

\* C16: a call issues exactly one request, to url + path, and ends returning
\* or raising: it returns only the decoded body (or its value member) of a
\* 200/201 response, it raises the connection failure when the network
\* failed, no request is issued outside a call or after its failure, and
\* the server's url is what it was.
C16_OneRequestPerCall ==
  /\ ~CallDone => sent = << >>
  /\ url = ServerUrl
  /\ CallDone =>
       /\ Len(sent) = 1
       /\ sent[1].url = ServerUrl \o arg.path
       /\ ret.kind \in {"return", "raise"}
       /\ ~Answered => (Raised(ret) /\ ret.exc = "ConnectionFailure")
       /\ ~Raised(ret) =>
            /\ Answered
            /\ arg.outcome.response.status_code \in {200, 201}
            /\ arg.outcome.response.text.wf
            /\ ret.value = IF "value" \in DOMAIN Answer.v THEN Answer.v.value ELSE Answer

\* a get that met a connection error raised after its one request
C16_Witness ==
  /\ op = "get"
  /\ arg.outcome.kind = "ConnectionError"
  /\ Raised(ret)
  /\ Len(sent) = 1

\* a TimeSheet whose required fields are all set: an id string, the three
\* dates, and an organization reference holding an id string
WellFormedSheet(x) ==
  /\ x.obj_id.k = "str"
  /\ x.period # JNull /\ x.date_start # JNull /\ x.date_end # JNull
  /\ IsInst(x.organization)
  /\ x.organization.obj_id.k = "str"

\* C17 as stated: TimeSheet.to_dict returns a mapping holding Ref_Key,
\* PeriodRegistratsii, Organizatsiya_Key, DataNachalaPerioda,
\* DataOkonchaniyaPerioda and DannyeOVremeni for every TimeSheet, also one
\* with no lines or with an empty-string identifier; only Number, Date and
\* Podrazdelenie_Key may be missing.
C17_RequiredKeysAlwaysEmitted ==
  (op = "to_dict" /\ obj.cls = "TimeSheet" /\ WellFormedSheet(obj)) =>
    /\ ~Raised(ret)
    /\ RequiredKeys("TimeSheet") \subseteq DOMAIN ret.value
    /\ DOMAIN ret.value \subseteq RequiredKeys("TimeSheet") \cup OptionalSheetKeys

\* C18: for any two instances, of any classes and other fields, a == b
\* implies hash(a) == hash(b); == is reflexive and symmetric; and {a, b} has
\* one element when the two share an obj_id and two when they do not.
C18_HashConsistentWithEq ==
  /\ op = "__hash__" =>
       /\ ~Raised(ret)
       /\ (arg.other # JNull /\ APIObjectID_eq(arg.self, arg.other) = Return(JBool(TRUE))) =>
            ret = APIObjectID_hash(arg.other)
  /\ (op = "__eq__" /\ arg.other # JNull) =>
       /\ ret = APIObjectID_eq(arg.other, arg.self)
       /\ arg.other = arg.self => ret = Return(JBool(TRUE))
  /\ op = "set" =>
       /\ ~Raised(ret)
       /\ Len(ret.value) = IF SameId THEN 1 ELSE 2

\* a set built of two instances of different classes with one obj_id holds
\* one element
C18_Witness ==
  /\ op = "set"
  /\ SameId
  /\ arg.self.cls # arg.other.cls
  /\ ret = Return(<<arg.self>>)

=============================================================================
